---- MODULE Spec2Model ----
(***************************************************************************)
(* Format detection of datumaro (datumaro/components/format_detection.py): *)
(* the FormatDetectionContext requirement primitives, the require_any /    *)
(* alternative bookkeeping and apply_format_detector, with the callers     *)
(* that invoke detectors one after the other; and the instance ids of the  *)
(* Cityscapes plugin (datumaro/plugins/cityscapes_format.py).              *)
(*                                                                         *)
(* A string is a sequence of one-character strings, so that splitting,     *)
(* normalising, joining and matching paths are computed, not assumed.      *)
(* The file system is a tree without symbolic links; a node is the         *)
(* sequence of names leading to it from the top of the file system.        *)
(***************************************************************************)
EXTENDS Integers, Sequences, FiniteSets, TLC

VARIABLES
    platform,              \* which os.path the interpreter uses: "posix" or "nt"
    fs,                    \* the file system: [dirs, files], sets of nodes
    pc,                    \* position in apply_format_detector
    one_or_more_context,   \* FormatDetectionContext._one_or_more_context
    scopes,                \* the live _OneOrMoreContext objects, by identity
    stack,                 \* the with-blocks the detector is inside, innermost last
    exc,                   \* the exception in flight, or None
    result,                \* what apply_format_detector gave its caller
    handles,               \* number of file objects currently open
    invocations,           \* how many times the detector was invoked
    ops,                   \* operations the detector has issued so far
    last,                  \* the operation that just ran, with its observations
    previous,              \* how the invocation before this one ended
    max_confidence,        \* detect_dataset: the best confidence so far
    matched,               \* detect_dataset: the formats that reached it
    tried,                 \* detect_dataset: what each detector tried so far did
    detected,              \* detect_dataset: the formats it returned
    masks,                 \* Cityscapes: the mask annotations of an item
    instance_ids,          \* Cityscapes converter: the id written for each mask
    instances_mask,        \* Cityscapes: the values of the written instance image
    anns                   \* Cityscapes extractor: the annotations read back

\* the callers of apply_format_detector
callers == <<previous, max_confidence, matched, tried, detected>>

\* the Cityscapes converter and extractor
cityscapes == <<masks, instance_ids, instances_mask, anns>>

vars == <<platform, fs, pc, one_or_more_context, scopes, stack, exc, result,
          handles, invocations, ops, last, callers, cityscapes>>


----------------------------------------------------------------------------
(* Bounds of the model *)

MaxOps == 8        \* operations one detector run issues
MaxDepth == 6      \* nesting depth of with-blocks
MaxAlts == 3

\* calls of apply_format_detector by one caller
MaxInvocations == 2

\* formats registered with the environment
NumFormats == 2

\* mask annotations of one dataset item
MaxMasks == 2       \* alternative blocks written in one require_any block

----------------------------------------------------------------------------
(* Strings *)

RECURSIVE Join(_, _)
Join(parts, s) ==
    IF parts = <<>> THEN <<>>
    ELSE IF Len(parts) = 1 THEN parts[1]
    ELSE parts[1] \o <<s>> \o Join(Tail(parts), s)

StartsWith(s, prefix) ==
    /\ Len(s) >= Len(prefix)
    /\ SubSeq(s, 1, Len(prefix)) = prefix

Last(s) == s[Len(s)]

Front(s) == SubSeq(s, 1, Len(s) - 1)

\* file and directory names
N_r == <<"r">>
N_a == <<"a">>
N_b == <<"b">>
N_o == <<"o">>
N_ctxt == <<"c", ".", "t", "x", "t">>
N_dtxt == <<"d", ".", "t", "x", "t">>
N_stxt == <<"s", ".", "t", "x", "t">>
N_hidden == <<".", "h">>
DotDot == <<".", ".">>
Dot == <<".">>

----------------------------------------------------------------------------
(* os.path *)

sep(pf) == IF pf = "nt" THEN "\\" ELSE "/"

IsSep(pf, c) == c = "/" \/ (pf = "nt" /\ c = "\\")

\* osp.splitdrive(path): the drive part (UNC shares are not modelled)
splitdrive(pf, path) ==
    IF pf = "nt" /\ Len(path) >= 2 /\ path[2] = ":"
    THEN <<SubSeq(path, 1, 2), SubSeq(path, 3, Len(path))>>
    ELSE <<<<>>, path>>

\* osp.isabs(path)
isabs(pf, path) ==
    LET rest == splitdrive(pf, path)[2]
    IN  Len(rest) > 0 /\ IsSep(pf, rest[1])

\* path.split(sep): the components between separators, empty ones included
RECURSIVE SplitFrom(_, _, _, _)
SplitFrom(pf, path, i, cur) ==
    IF i > Len(path) THEN <<cur>>
    ELSE IF IsSep(pf, path[i])
         THEN <<cur>> \o SplitFrom(pf, path, i + 1, <<>>)
         ELSE SplitFrom(pf, path, i + 1, Append(cur, path[i]))

Split(pf, path) == SplitFrom(pf, path, 1, <<>>)

\* the component loop of osp.normpath: drops "" and ".", resolves ".."
RECURSIVE NormComps(_, _, _)
NormComps(comps, rooted, acc) ==
    IF comps = <<>> THEN acc
    ELSE LET comp == Head(comps)
             rest == Tail(comps)
         IN  IF comp = <<>> \/ comp = Dot
             THEN NormComps(rest, rooted, acc)
             ELSE IF \/ comp # DotDot
                     \/ (~rooted /\ acc = <<>>)
                     \/ (acc # <<>> /\ Last(acc) = DotDot)
                  THEN NormComps(rest, rooted, Append(acc, comp))
                  ELSE IF acc # <<>>
                       THEN NormComps(rest, rooted, Front(acc))
                       ELSE NormComps(rest, rooted, acc)

\* osp.normpath(path)
normpath(pf, path) ==
    LET sd == splitdrive(pf, path)
        rooted == isabs(pf, path)
        comps == NormComps(Split(pf, sd[2]), rooted, <<>>)
        body == Join(comps, sep(pf))
        full == sd[1] \o (IF rooted THEN <<sep(pf)>> ELSE <<>>) \o body
    IN  IF full = <<>> THEN Dot ELSE full

\* osp.join(a, b)
join(pf, a, b) ==
    IF splitdrive(pf, b)[1] # <<>> THEN b
    ELSE IF isabs(pf, b) THEN splitdrive(pf, a)[1] \o b
    ELSE IF a = <<>> \/ IsSep(pf, Last(a)) THEN a \o b
    ELSE a \o <<sep(pf)>> \o b

\* osp.basename(path)
basename(pf, path) == Last(Split(pf, path))

\* osp.split(path): <<head, tail>>, the tail being what follows the last separator
RECURSIVE StripSeps(_, _)
StripSeps(pf, head) ==
    IF head = <<>> \/ ~IsSep(pf, Last(head)) THEN head
    ELSE StripSeps(pf, Front(head))

RECURSIVE LastSepIndex(_, _, _)
LastSepIndex(pf, path, i) ==
    IF i = 0 THEN 0
    ELSE IF IsSep(pf, path[i]) THEN i
    ELSE LastSepIndex(pf, path, i - 1)

ossplit(pf, path) ==
    LET sd == splitdrive(pf, path)
        p == sd[2]
        i == LastSepIndex(pf, p, Len(p))
        head == SubSeq(p, 1, i)
        tail == SubSeq(p, i + 1, Len(p))
        stripped == StripSeps(pf, head)
    IN  <<sd[1] \o (IF stripped = <<>> THEN head ELSE stripped), tail>>

----------------------------------------------------------------------------
(* The file system *)

Parent(node) == IF node = <<>> THEN <<>> ELSE Front(node)

\* what a path that denotes nothing resolves to
NoNode == << <<"<none>">> >>

\* the node a sequence of path components leads to from `cur`, or NoNode
RECURSIVE Walk(_, _, _)
Walk(f, cur, comps) ==
    IF cur = NoNode THEN NoNode
    ELSE IF comps = <<>> THEN cur
    ELSE IF cur \notin f.dirs THEN NoNode
    ELSE LET comp == Head(comps)
         IN  IF comp = <<>> \/ comp = Dot THEN Walk(f, cur, Tail(comps))
             ELSE IF comp = DotDot THEN Walk(f, Parent(cur), Tail(comps))
             ELSE IF Append(cur, comp) \in (f.dirs \cup f.files)
                  THEN Walk(f, Append(cur, comp), Tail(comps))
                  ELSE NoNode

\* the node an absolute path denotes, or NoNode
NodeOf(pf, f, path) == Walk(f, <<>>, Split(pf, splitdrive(pf, path)[2]))

\* osp.lexists, osp.isdir, osp.isfile
lexists(pf, f, path) == NodeOf(pf, f, path) # NoNode

isdir(pf, f, path) == NodeOf(pf, f, path) \in f.dirs

isfile(pf, f, path) == NodeOf(pf, f, path) \in f.files

\* osp.relpath(path, start), both absolute
RECURSIVE CommonLen(_, _)
CommonLen(a, b) ==
    IF a = <<>> \/ b = <<>> \/ Head(a) # Head(b) THEN 0
    ELSE 1 + CommonLen(Tail(a), Tail(b))

CompsOf(pf, path) ==
    NormComps(Split(pf, splitdrive(pf, path)[2]), TRUE, <<>>)

relpath(pf, path, start) ==
    LET start_list == CompsOf(pf, start)
        path_list == CompsOf(pf, path)
        i == CommonLen(start_list, path_list)
        rel_list == [k \in 1..(Len(start_list) - i) |-> DotDot]
                        \o SubSeq(path_list, i + 1, Len(path_list))
    IN  IF rel_list = <<>> THEN Dot ELSE Join(rel_list, sep(pf))

----------------------------------------------------------------------------
(* fnmatch and glob *)

MagicChars == {"*", "?", "["}

\* glob.has_magic(s)
has_magic(s) == \E i \in 1..Len(s) : s[i] \in MagicChars

\* glob._ishidden(name)
ishidden(name) == Len(name) > 0 /\ name[1] = "."

\* glob._isrecursive(pattern)
\* as a glob without recursive=True: ** is an ordinary pattern
isrecursive_Never(pattern) == FALSE

isrecursive(pattern) == pattern = <<"*", "*">>

\* glob.escape(pathname): every magic character is put in brackets
RECURSIVE escape(_)
escape(s) ==
    IF s = <<>> THEN <<>>
    ELSE IF Head(s) \in MagicChars
         THEN <<"[", Head(s), "]">> \o escape(Tail(s))
         ELSE <<Head(s)>> \o escape(Tail(s))

\* fnmatch.fnmatch(name, pat) for patterns made of literals, "*" and "?"
RECURSIVE fnmatch(_, _)
fnmatch(name, pat) ==
    IF pat = <<>> THEN name = <<>>
    ELSE IF Head(pat) = "*"
         THEN \/ fnmatch(name, Tail(pat))
              \/ (name # <<>> /\ fnmatch(Tail(name), pat))
         ELSE /\ name # <<>>
              /\ (Head(pat) = "?" \/ Head(pat) = Head(name))
              /\ fnmatch(Tail(name), Tail(pat))

\* glob._listdir(dirname, dironly): the names in a directory
listdir(pf, f, dirname, dironly) ==
    LET node == NodeOf(pf, f, dirname)
    IN  IF node \notin f.dirs THEN {}
        ELSE {Last(n) : n \in {m \in (IF dironly THEN f.dirs
                                         ELSE f.dirs \cup f.files) :
                                   m # <<>> /\ Parent(m) = node}}

\* glob._rlistdir(dirname, dironly): every path below a directory that goes
\* through unhidden names only
rlistdir(pf, f, dirname, dironly) ==
    LET node == NodeOf(pf, f, dirname)
        below == {m \in (IF dironly THEN f.dirs ELSE f.dirs \cup f.files) :
                     /\ Len(m) > Len(node)
                     /\ SubSeq(m, 1, Len(node)) = node
                     /\ \A k \in (Len(node) + 1)..Len(m) : ~ishidden(m[k])}
    IN  IF node \notin f.dirs THEN {}
        ELSE {Join(SubSeq(m, Len(node) + 1, Len(m)), sep(pf)) : m \in below}

\* glob._glob0
glob0(pf, f, dirname, base, dironly) ==
    IF base = <<>>
    THEN IF isdir(pf, f, dirname) THEN {base} ELSE {}
    ELSE IF lexists(pf, f, join(pf, dirname, base)) THEN {base} ELSE {}

\* glob._glob1
glob1(pf, f, dirname, pattern, dironly) ==
    {n \in listdir(pf, f, dirname, dironly) :
        /\ (ishidden(pattern) \/ ~ishidden(n))
        /\ fnmatch(n, pattern)}

\* glob._glob2
glob2(pf, f, dirname, pattern, dironly) ==
    {<<>>} \cup rlistdir(pf, f, dirname, dironly)

\* glob._iglob(pathname, recursive=True, dironly): the paths produced, as a set
RECURSIVE iglob(_, _, _, _)
iglob(pf, f, pathname, dironly) ==
    LET hb == ossplit(pf, pathname)
        dirname == hb[1]
        base == hb[2]
        dirs == IF dirname # pathname /\ has_magic(dirname)
                THEN iglob(pf, f, dirname, TRUE)
                ELSE {dirname}
        InDir(d) == IF has_magic(base)
                    THEN IF isrecursive(base)
                         THEN glob2(pf, f, d, base, dironly)
                         ELSE glob1(pf, f, d, base, dironly)
                    ELSE glob0(pf, f, d, base, dironly)
    IN  IF ~has_magic(pathname)
        THEN IF base # <<>>
             THEN IF lexists(pf, f, pathname) THEN {pathname} ELSE {}
             ELSE IF isdir(pf, f, dirname) THEN {pathname} ELSE {}
        ELSE UNION {{join(pf, d, n) : n \in InDir(d)} : d \in dirs}

----------------------------------------------------------------------------
(* Inputs: file systems, root path, patterns, descriptions *)

Platforms == {"posix", "nt"}

\* dataset_root_path, an absolute path
RootPath(pf) == IF pf = "nt" THEN <<"c", ":", "\\", "r">> ELSE <<"/", "r">>

RootNode == <<N_r>>

\* a file system given by its files and its empty directories: every
\* ancestor of a node is a directory
Ancestors(node) == {SubSeq(node, 1, k) : k \in 0..(Len(node) - 1)}

MkFs(files, emptyDirs) ==
    [files |-> files,
     dirs  |-> emptyDirs \cup UNION {Ancestors(n) : n \in files \cup emptyDirs}]

F_rabc == <<N_r, N_a, N_b, N_ctxt>>     \* r/a/b/c.txt
F_rac == <<N_r, N_a, N_ctxt>>           \* r/a/c.txt
F_rc == <<N_r, N_ctxt>>                 \* r/c.txt
F_rd == <<N_r, N_dtxt>>                 \* r/d.txt
F_rh == <<N_r, N_hidden>>               \* r/.h
F_s == <<N_stxt>>                       \* s.txt, next to the root
F_os == <<N_o, N_stxt>>                 \* o/s.txt, outside the root
D_ra == <<N_r, N_a>>                    \* r/a, an empty directory

\* a root that is a directory, with files inside and outside it
FsFull == MkFs({F_rabc, F_rc, F_s, F_os}, {})

\* a root that holds one file, directly under a
FsDirect == MkFs({F_rac, F_s}, {})

\* a root with an empty directory, a hidden file and two files
FsFlat == MkFs({F_rc, F_rd, F_rh, F_s}, {D_ra})

\* a root that holds only a/b/c.txt
FsNested == MkFs({F_rabc, F_s}, {})

\* an empty root
FsEmpty == MkFs({F_s}, {RootNode})

\* the root path names a regular file
FsRootIsFile == MkFs({RootNode, F_s}, {})

\* the root path names nothing
FsNoRoot == MkFs({F_s}, {})

FsChoices ==
    {FsFull, FsNested, FsDirect, FsFlat, FsEmpty, FsRootIsFile, FsNoRoot}

Str(names) == Join(names, "/")

P_a_rec_txt == Str(<<N_a, <<"*", "*">>, <<"*", ".", "t", "x", "t">> >>)   \* a/**/*.txt
P_a_rec_csv == Str(<<N_a, <<"*", "*">>, <<"*", ".", "c", "s", "v">> >>)   \* a/**/*.csv
P_star_txt == <<"*", ".", "t", "x", "t">>                               \* *.txt
P_rec == <<"*", "*">>                                                   \* **
P_a_star == Str(<<N_a, <<"*">> >>)                                      \* a/*
P_ctxt == N_ctxt                                                        \* c.txt
P_up_s == Str(<<DotDot, N_stxt>>)                                       \* ../s.txt
P_a_up_c == Str(<<N_a, DotDot, N_ctxt>>)                                \* a/../c.txt
P_a_up_up_s == Str(<<N_a, DotDot, DotDot, N_stxt>>)                     \* a/../../s.txt
P_star_up_up_s == Str(<<<<"*">>, DotDot, DotDot, N_stxt>>)              \* */../../s.txt
P_up == DotDot                                                          \* ..
P_a_up_up == Str(<<N_a, DotDot, DotDot>>)                               \* a/../..
P_up_slash == DotDot \o <<"/">>                                         \* ../
P_up_r_c == Str(<<DotDot, N_r, N_ctxt>>)                                \* ../r/c.txt
P_abs_s == <<"/">> \o N_stxt                                            \* /s.txt
P_abs_r_c == <<"/">> \o Str(<<N_r, N_ctxt>>)                            \* /r/c.txt
P_drive_abs == <<"c", ":", "/">> \o N_stxt                              \* c:/s.txt
P_drive_rel == <<"c", ":">> \o N_ctxt                                   \* c:c.txt
P_dot_c == Str(<<Dot, N_ctxt>>)                                         \* ./c.txt

FilePatterns ==
    {P_a_rec_txt, P_a_rec_csv, P_star_txt, P_rec, P_a_star, P_ctxt, P_up_s,
     P_a_up_c, P_a_up_up_s, P_star_up_up_s, P_up, P_a_up_up, P_up_slash,
     P_up_r_c, P_abs_s, P_abs_r_c, P_drive_abs, P_drive_rel, P_dot_c}

\* exclude_fnames: a single pattern (str) or a collection of patterns
NoExclude == [isStr |-> FALSE, val |-> <<>>]

Excludes ==
    {NoExclude,
     [isStr |-> TRUE, val |-> N_ctxt],
     [isStr |-> FALSE, val |-> <<N_ctxt>>],
     [isStr |-> FALSE, val |-> <<N_dtxt, <<"c", ".", "*">> >>]}

\* requirement descriptions a detector passes to fail
Descs == {<<"need X">>, <<>>}

----------------------------------------------------------------------------
(* FormatDetectionConfidence *)

LOW == 10

\* as MEDIUM, given a value below LOW and below 0
MEDIUM_BelowLow == 5 - LOW

MEDIUM == 20

FormatDetectionConfidence == {LOW, MEDIUM}

\* Python values a detector can return, as <<type, numeric value>>
PyNone == <<"NoneType", 0>>

Confidence(level) == <<"FormatDetectionConfidence", level>>

Truthy(v) == v[1] # "NoneType" /\ v[2] # 0

PyFalse == <<"bool", 0>>

DetectorReturns ==
    {PyNone, PyFalse, <<"int", 0>>}
        \cup {Confidence(l) : l \in FormatDetectionConfidence}

----------------------------------------------------------------------------
(* Exceptions *)

NoExc == [type |-> "None", failed_alternatives |-> <<>>]

AssertionError == [type |-> "AssertionError", failed_alternatives |-> <<>>]

\* an exception that is neither of the two above (ValueError, OSError, ...)
OtherException == [type |-> "Exception", failed_alternatives |-> <<>>]

\* as __init__, with empty descriptions filtered out of the list
RECURSIVE NonEmptyOnly(_)
NonEmptyOnly(list) ==
    IF list = <<>> THEN <<>>
    ELSE (IF Head(list) = <<>> THEN <<>> ELSE <<Head(list)>>)
         \o NonEmptyOnly(Tail(list))

FormatRequirementsUnmet_SkipEmpty(failed_alternatives) ==
    IF failed_alternatives = <<>>
    THEN [type |-> "AssertionError", failed_alternatives |-> <<>>]
    ELSE [type |-> "FormatRequirementsUnmet",
          failed_alternatives |-> NonEmptyOnly(failed_alternatives)]

\* FormatRequirementsUnmet.__init__
FormatRequirementsUnmet(failed_alternatives) ==
    IF failed_alternatives = <<>>
    THEN AssertionError
    ELSE [type |-> "FormatRequirementsUnmet",
          failed_alternatives |-> failed_alternatives]

IsUnmet(e) == e.type = "FormatRequirementsUnmet"

----------------------------------------------------------------------------
(* FormatDetectionContext *)

\* _one_or_more_context = None
NoScope == 0

\* _OneOrMoreContext.__init__
OneOrMoreContext ==
    [failed_alternatives |-> <<>>, had_successful_alternatives |-> FALSE]

\* as _is_path_within_root, testing the path as given, not normalised
is_path_within_root_Raw(pf, path) ==
    IF isabs(pf, path) \/ splitdrive(pf, path)[1] # <<>>
    THEN FALSE
    ELSE IF StartsWith(path, DotDot \o <<"/">>)
         THEN FALSE
         ELSE TRUE

\* as _is_path_within_root, without the test for absolute paths and drives
is_path_within_root_AnyStart(pf, path) ==
    IF StartsWith(normpath(pf, path), DotDot \o <<sep(pf)>>)
    THEN FALSE
    ELSE TRUE

\* FormatDetectionContext._is_path_within_root
is_path_within_root(pf, path) ==
    IF isabs(pf, path) \/ splitdrive(pf, path)[1] # <<>>
    THEN FALSE
    ELSE IF StartsWith(normpath(pf, path), DotDot \o <<sep(pf)>>)
         THEN FALSE
         ELSE TRUE

\* as _start_requirement, without its assertion
start_requirement_Unchecked(ooc) == TRUE

\* FormatDetectionContext._start_requirement: does the assertion pass
start_requirement(ooc) == ooc = NoScope

\* as fail, the description passed where the sequence of descriptions belongs
fail_BareString(ooc, requirement_desc) ==
    IF ~start_requirement(ooc)
    THEN AssertionError
    ELSE FormatRequirementsUnmet(requirement_desc)

\* FormatDetectionContext.fail: the exception it ends with
fail(ooc, requirement_desc) ==
    IF ~start_requirement(ooc)
    THEN AssertionError
    ELSE FormatRequirementsUnmet(<<requirement_desc>>)

\* ', '.join(f'"{e}"' for e in exclude_fnames)
RECURSIVE QuotedList(_)
QuotedList(names) ==
    IF names = <<>> THEN <<>>
    ELSE <<"\"">> \o Head(names) \o <<"\"">>
         \o (IF Len(names) > 1 THEN <<", ">> ELSE <<>>)
         \o QuotedList(Tail(names))

\* as the exclusion patterns, a string being iterated like a collection
ExcludeFnames_NoWrap(exclude) ==
    IF exclude.isStr
    THEN [k \in 1..Len(exclude.val) |-> <<exclude.val[k]>>]
    ELSE exclude.val

\* the exclusion patterns of a call, a single string being one pattern
ExcludeFnames(exclude) == IF exclude.isStr THEN <<exclude.val>> ELSE exclude.val

\* require_file: requirement_desc
RequireFileDesc(pattern, exclude) ==
    <<"dataset must contain a file matching pattern \"">> \o pattern \o <<"\"">>
    \o (IF ExcludeFnames(exclude) # <<>>
        THEN <<" (but not named ">> \o QuotedList(ExcludeFnames(exclude)) \o <<")">>
        ELSE <<>>)

\* what a call that does not return a path "returns"
NoPath == <<"<none>">>

\* as the files of the glob, without the isfile test
RequireFileMatches_NoIsFile(pf, f, root, pattern, exclude) ==
    LET pattern_abs == join(pf, escape(root), pattern)
        ex == ExcludeFnames(exclude)
    IN  {path \in iglob(pf, f, pattern_abs, FALSE) :
            ~\E k \in 1..Len(ex) : fnmatch(basename(pf, path), ex[k])}

\* require_file: the files of the glob that pass isfile and the exclusions
RequireFileMatches(pf, f, root, pattern, exclude) ==
    LET pattern_abs == join(pf, escape(root), pattern)
        ex == ExcludeFnames(exclude)
    IN  {path \in iglob(pf, f, pattern_abs, FALSE) :
            /\ isfile(pf, f, path)
            /\ ~\E k \in 1..Len(ex) : fnmatch(basename(pf, path), ex[k])}

\* FormatDetectionContext.require_file: the outcomes [exc, ret] it can have;
\* the file returned is the first the directory scan produces, which is any
RequireFile(pf, f, root, ooc, pattern, exclude) ==
    LET desc == RequireFileDesc(pattern, exclude)
        matches == RequireFileMatches(pf, f, root, pattern, exclude)
    IN  IF ~start_requirement(ooc)
        THEN {[exc |-> AssertionError, ret |-> NoPath]}
        ELSE IF ~is_path_within_root(pf, pattern)
        THEN {[exc |-> fail(ooc, desc), ret |-> NoPath]}
        ELSE IF matches # {}
        THEN {[exc |-> NoExc, ret |-> relpath(pf, path, root)] : path \in matches}
        ELSE {[exc |-> fail(ooc, desc), ret |-> NoPath]}

\* f"{path}: {requirement_desc}"
ProbeDescFull(path, requirement_desc) == path \o <<": ">> \o requirement_desc

\* f"root path {dataset_root_path} must refer to a directory"
RootDesc(root) == <<"root path ">> \o root \o <<" must refer to a directory">>

----------------------------------------------------------------------------
(* The with-blocks a detector is inside.  A frame holds the locals of the   *)
(* context manager (saved, desc) and, for the properties, what the detector *)
(* saw happen in the block: the alternative blocks written in it (nAlts),   *)
(* those whose body started, those whose body ran to its end, and the       *)
(* failure lists that left the bodies of the others.                        *)

Frame(kind, scope, saved, desc, nAlts) ==
    [kind |-> kind, scope |-> scope, saved |-> saved, desc |-> desc,
     nAlts |-> nAlts, started |-> <<>>, okAlts |-> <<>>, failedSeen |-> <<>>]

NoFrame == Frame("none", NoScope, NoScope, <<>>, 0)

Top == IF stack = <<>> THEN NoFrame ELSE Last(stack)

\* the stack with its innermost frame replaced
WithTop(frame) == Append(Front(stack), frame)

\* as the creation of a scope object, one object shared by all the blocks
FreshScope_Shared == NoScope + 1

\* the identity of a new object: the first one no live object has
FreshScope == CHOOSE i \in 1..(Cardinality(DOMAIN scopes) + 1) : i \notin DOMAIN scopes

\* the objects left once nothing refers to `id` any more
Collect(heap, id) == [i \in (DOMAIN heap) \ {id} |-> heap[i]]

Observation(op, arg, exclude, ret, frame, excIn) ==
    [op |-> op, arg |-> arg, exclude |-> exclude, ret |-> ret, frame |-> frame,
     within |-> Top.kind, excIn |-> excIn]

----------------------------------------------------------------------------
(* Initial state: apply_format_detector has not been called yet *)

NotReturned == [kind |-> "none", value |-> PyNone, exc |-> NoExc]

\* no invocation came before
NoOutcome == [kind |-> "none", exc |-> "None", from |-> "none"]

InitDetection(fsSet) ==
    /\ platform \in Platforms
    /\ fs \in fsSet
    /\ pc = "idle"
    /\ one_or_more_context = NoScope
    /\ scopes = <<>>
    /\ stack = <<>>
    /\ exc = NoExc
    /\ result = NotReturned
    /\ handles = 0
    /\ invocations = 0
    /\ ops = 0
    /\ last = Observation("init", <<>>, NoExclude, NoPath, NoFrame, NoExc)
    /\ previous = NoOutcome
    /\ max_confidence = 0
    /\ matched = <<>>
    /\ tried = <<>>
    /\ detected = <<>>

\* before apply_format_detector is called; nothing of Cityscapes in sight
InitWith(fsSet) ==
    /\ InitDetection(fsSet)
    /\ masks = <<>>
    /\ instance_ids = <<>>
    /\ instances_mask = {}
    /\ anns = {}

Init == InitWith({FsFull, FsNoRoot})

----------------------------------------------------------------------------
(* apply_format_detector, up to the call of the detector *)

\* as apply_format_detector, testing that the root exists, not that it is a
\* directory
ApplyFormatDetector_ExistsCheck ==
    /\ pc = "idle"
    /\ one_or_more_context' = NoScope
    /\ scopes' = <<>>
    /\ stack' = <<>>
    /\ exc' = NoExc
    /\ handles' = handles
    /\ ops' = 0
    /\ last' = Observation("apply_format_detector", RootPath(platform),
                           NoExclude, NoPath, NoFrame, NoExc)
    /\ IF ~lexists(platform, fs, RootPath(platform))
       THEN /\ result' = [kind |-> "raised", value |-> PyNone,
                          exc |-> fail(NoScope, RootDesc(RootPath(platform)))]
            /\ pc' = "done"
            /\ invocations' = invocations
       ELSE /\ result' = NotReturned
            /\ pc' = "detector"
            /\ invocations' = invocations + 1
    /\ UNCHANGED <<callers, cityscapes,
                   platform, fs>>

\* as apply_format_detector, with one context object kept for every call
\* instead of a new one
ApplyFormatDetector_ReusedContext ==
    /\ pc = "idle"
    /\ UNCHANGED <<one_or_more_context, scopes, stack, exc, handles, ops>>
    /\ last' = Observation("apply_format_detector", RootPath(platform),
                           NoExclude, NoPath, NoFrame, NoExc)
    /\ IF ~isdir(platform, fs, RootPath(platform))
       THEN /\ result' = [kind |-> "raised", value |-> PyNone,
                          exc |-> fail(NoScope, RootDesc(RootPath(platform)))]
            /\ pc' = "done"
            /\ invocations' = invocations
       ELSE /\ result' = NotReturned
            /\ pc' = "detector"
            /\ invocations' = invocations + 1
    /\ UNCHANGED <<callers, cityscapes,
                   platform, fs>>

ApplyFormatDetector ==
    /\ pc = "idle"
    /\ one_or_more_context' = NoScope
    /\ scopes' = <<>>
    /\ stack' = <<>>
    /\ exc' = NoExc
    /\ handles' = handles
    /\ ops' = 0
    /\ last' = Observation("apply_format_detector", RootPath(platform),
                           NoExclude, NoPath, NoFrame, NoExc)
    /\ IF ~isdir(platform, fs, RootPath(platform))
       THEN /\ result' = [kind |-> "raised", value |-> PyNone,
                          exc |-> fail(NoScope, RootDesc(RootPath(platform)))]
            /\ pc' = "done"
            /\ invocations' = invocations
       ELSE /\ result' = NotReturned
            /\ pc' = "detector"
            /\ invocations' = invocations + 1
    /\ UNCHANGED <<callers, cityscapes,
                   platform, fs>>

\* the detector is running and is free to issue its next operation
Running == pc = "detector" /\ exc = NoExc /\ ops < MaxOps

----------------------------------------------------------------------------
(* Operations of the detector on the context *)

\* context.fail(requirement_desc)
Fail(requirement_desc) ==
    /\ Running
    /\ exc' = fail(one_or_more_context, requirement_desc)
    /\ ops' = ops + 1
    /\ last' = Observation("fail", requirement_desc, NoExclude, NoPath, Top, NoExc)
    /\ UNCHANGED <<callers, cityscapes,
                   platform, fs, pc, one_or_more_context, scopes, stack,
                   result, handles, invocations>>

\* context.require_file(pattern, exclude_fnames=exclude)
CallRequireFile(pattern, exclude) ==
    /\ Running
    /\ \E out \in RequireFile(platform, fs, RootPath(platform),
                              one_or_more_context, pattern, exclude) :
          /\ exc' = out.exc
          /\ last' = Observation("require_file", pattern, exclude, out.ret,
                                 Top, NoExc)
    /\ ops' = ops + 1
    /\ UNCHANGED <<callers, cityscapes,
                   platform, fs, pc, one_or_more_context, scopes, stack,
                   result, handles, invocations>>

\* as the code after the yield, without the assertion on the failures
RequireAnyExit_NoAssert(scope) ==
    IF scope.had_successful_alternatives \/ scope.failed_alternatives = <<>>
    THEN NoExc
    ELSE FormatRequirementsUnmet(scope.failed_alternatives)

\* the code of require_any after its yield, the body having completed:
\* the exception it ends with, or NoExc
RequireAnyExit(scope) ==
    IF scope.had_successful_alternatives
    THEN NoExc
    ELSE IF scope.failed_alternatives = <<>>
         THEN AssertionError
         ELSE FormatRequirementsUnmet(scope.failed_alternatives)

\* as the clauses of alternative, without the else clause
AlternativeExit_NoSuccessMark(scope, e) ==
    IF IsUnmet(e)
    THEN [scope |-> [scope EXCEPT !.failed_alternatives =
                                      @ \o e.failed_alternatives],
          exc |-> NoExc]
    ELSE [scope |-> scope, exc |-> e]

\* as the clauses of alternative, the except clause raising again
AlternativeExit_Reraise(scope, e) ==
    IF IsUnmet(e)
    THEN [scope |-> [scope EXCEPT !.failed_alternatives =
                                      @ \o e.failed_alternatives],
          exc |-> e]
    ELSE IF e = NoExc
         THEN [scope |-> [scope EXCEPT !.had_successful_alternatives = TRUE],
               exc |-> NoExc]
         ELSE [scope |-> scope, exc |-> e]

\* as the clauses of alternative, new failures put before the collected ones
AlternativeExit_Prepend(scope, e) ==
    IF IsUnmet(e)
    THEN [scope |-> [scope EXCEPT !.failed_alternatives =
                                      e.failed_alternatives \o @],
          exc |-> NoExc]
    ELSE IF e = NoExc
         THEN [scope |-> [scope EXCEPT !.had_successful_alternatives = TRUE],
               exc |-> NoExc]
         ELSE [scope |-> scope, exc |-> e]

\* as the clauses of alternative, with a bare except clause that records
\* nothing and lets the detector go on
AlternativeExit_Swallow(scope, e) ==
    IF IsUnmet(e)
    THEN [scope |-> [scope EXCEPT !.failed_alternatives =
                                      @ \o e.failed_alternatives],
          exc |-> NoExc]
    ELSE IF e = NoExc
         THEN [scope |-> [scope EXCEPT !.had_successful_alternatives = TRUE],
               exc |-> NoExc]
         ELSE [scope |-> scope, exc |-> NoExc]

\* the except and else clauses of alternative: what becomes of the saved
\* scope object and of the exception `e` that left the body (NoExc: none)
AlternativeExit(scope, e) ==
    IF IsUnmet(e)
    THEN [scope |-> [scope EXCEPT !.failed_alternatives =
                                      @ \o e.failed_alternatives],
          exc |-> NoExc]
    ELSE IF e = NoExc
         THEN [scope |-> [scope EXCEPT !.had_successful_alternatives = TRUE],
               exc |-> NoExc]
         ELSE [scope |-> scope, exc |-> e]

\* as the handlers of probe_text_file, without except FormatRequirementsUnmet
ProbeExit_AlwaysFail(ooc, e, requirement_desc_full) ==
    IF e = NoExc THEN NoExc
    ELSE fail(ooc, requirement_desc_full)

\* as the handlers of probe_text_file, without except Exception
ProbeExit_NoConversion(ooc, e, requirement_desc_full) == e

\* the except clauses of probe_text_file: the exception that leaves the block
\* when `e` left the with-open statement (NoExc: none)
ProbeExit(ooc, e, requirement_desc_full) ==
    IF e = NoExc THEN NoExc
    ELSE IF IsUnmet(e) THEN e
    ELSE fail(ooc, requirement_desc_full)

\* with context.require_any(): a block with n alternative blocks written in it
EnterRequireAny ==
    /\ Running
    /\ ops' = ops + 1
    /\ IF ~start_requirement(one_or_more_context)
       THEN /\ exc' = AssertionError
            /\ last' = Observation("require_any", <<>>, NoExclude, NoPath, Top, NoExc)
            /\ UNCHANGED <<one_or_more_context, scopes, stack>>
       ELSE /\ Len(stack) < MaxDepth
            /\ \E n \in 0..MaxAlts :
                  LET frame == Frame("require_any", FreshScope, NoScope, <<>>, n)
                  IN  /\ stack' = Append(stack, frame)
                      /\ last' = Observation("require_any", <<>>, NoExclude,
                                             NoPath, frame, NoExc)
            /\ scopes' = [i \in DOMAIN scopes \cup {FreshScope} |->
                             IF i = FreshScope THEN OneOrMoreContext ELSE scopes[i]]
            /\ one_or_more_context' = FreshScope
            /\ exc' = NoExc
    /\ UNCHANGED <<callers, cityscapes,
                   platform, fs, pc, result, handles, invocations>>

\* as alternative, without its assertion: the block is entered anywhere
EnterAlternative_NoAssert ==
    /\ Running
    /\ Top.kind = "require_any" => Len(Top.started) < Top.nAlts
    /\ ops' = ops + 1
    /\ Len(stack) < MaxDepth
    /\ LET frame == Frame("alternative", NoScope, one_or_more_context, <<>>, 0)
           parent == IF Top.kind = "require_any"
                     THEN [Top EXCEPT !.started = Append(@, Len(@) + 1)]
                     ELSE Top
       IN  /\ stack' = IF stack = <<>> THEN <<frame>>
                       ELSE Append(WithTop(parent), frame)
           /\ last' = Observation("alternative", <<>>, NoExclude, NoPath,
                                  parent, NoExc)
    /\ one_or_more_context' = NoScope
    /\ exc' = NoExc
    /\ UNCHANGED <<callers, cityscapes,
                   platform, fs, pc, scopes, result, handles, invocations>>

\* with context.alternative(): the next alternative block of the enclosing
\* require_any block, or one written where no require_any block is open
EnterAlternative ==
    /\ Running
    /\ Top.kind = "require_any" => Len(Top.started) < Top.nAlts
    /\ ops' = ops + 1
    /\ IF one_or_more_context = NoScope
       THEN /\ exc' = AssertionError
            /\ last' = Observation("alternative", <<>>, NoExclude, NoPath, Top, NoExc)
            /\ UNCHANGED <<one_or_more_context, stack>>
       ELSE /\ Len(stack) < MaxDepth
            /\ LET frame == Frame("alternative", NoScope, one_or_more_context, <<>>, 0)
                   parent == IF Top.kind = "require_any"
                             THEN [Top EXCEPT !.started = Append(@, Len(@) + 1)]
                             ELSE Top
               IN  /\ stack' = Append(WithTop(parent), frame)
                   /\ last' = Observation("alternative", <<>>, NoExclude, NoPath,
                                          parent, NoExc)
            /\ one_or_more_context' = NoScope
            /\ exc' = NoExc
    /\ UNCHANGED <<callers, cityscapes,
                   platform, fs, pc, scopes, result, handles, invocations>>

\* with context.probe_text_file(path, requirement_desc) as f:
EnterProbe(path, requirement_desc) ==
    LET requirement_desc_full == ProbeDescFull(path, requirement_desc)
        opened == /\ start_requirement(one_or_more_context)
                  /\ is_path_within_root(platform, path)
                  /\ isfile(platform, fs, join(platform, RootPath(platform), path))
    IN  /\ Running
        /\ ops' = ops + 1
        /\ last' = Observation("probe_text_file", path, NoExclude, NoPath, Top, NoExc)
        /\ IF ~start_requirement(one_or_more_context)
           THEN exc' = AssertionError
           ELSE IF ~is_path_within_root(platform, path)
           THEN exc' = fail(one_or_more_context, requirement_desc_full)
           ELSE IF opened
           THEN exc' = NoExc
           ELSE \* open() raised OSError
                exc' = ProbeExit(one_or_more_context, OtherException,
                                 requirement_desc_full)
        /\ IF opened
           THEN /\ Len(stack) < MaxDepth
                /\ stack' = Append(stack, Frame("probe", NoScope, NoScope,
                                                requirement_desc_full, 0))
                /\ handles' = handles + 1
           ELSE UNCHANGED <<stack, handles>>
        /\ UNCHANGED <<callers, cityscapes,
                       platform, fs, pc, one_or_more_context, scopes, result,
                       invocations>>

\* the detector's own code raises an exception that is not
\* FormatRequirementsUnmet (reading the probed file fails to decode, a bug)
RaiseOther ==
    /\ Running
    /\ ops' = ops + 1
    /\ exc' = OtherException
    /\ last' = Observation("raise", <<>>, NoExclude, NoPath, Top, NoExc)
    /\ UNCHANGED <<callers, cityscapes,
                   platform, fs, pc, one_or_more_context, scopes, stack,
                   result, handles, invocations>>

----------------------------------------------------------------------------
(* Leaving a with-block: its body ran to the end *)

BodyEnds == pc = "detector" /\ exc = NoExc /\ stack # <<>>

\* the frames left when the innermost alternative block is left, the
\* enclosing require_any block having seen the exception `e` leave its body
LeaveAlternative(e) ==
    LET rest == Front(stack)
        parent == IF rest = <<>> THEN NoFrame ELSE Last(rest)
        idx == IF parent.started = <<>> THEN 0 ELSE Last(parent.started)
        seen == IF IsUnmet(e)
                THEN [parent EXCEPT !.failedSeen = @ \o e.failed_alternatives]
                ELSE IF e = NoExc
                     THEN [parent EXCEPT !.okAlts = Append(@, idx)]
                     ELSE parent
    IN  IF rest = <<>> \/ parent.kind # "require_any"
        THEN rest
        ELSE Append(Front(rest), seen)

EndRequireAny ==
    /\ BodyEnds
    /\ Top.kind = "require_any"
    /\ Len(Top.started) = Top.nAlts
    /\ exc' = IF one_or_more_context = NoScope
              THEN OtherException     \* None has no attributes
              ELSE RequireAnyExit(scopes[one_or_more_context])
    /\ one_or_more_context' = NoScope
    /\ scopes' = Collect(scopes, Top.scope)
    /\ stack' = Front(stack)
    /\ last' = Observation("end_require_any", <<>>, NoExclude, NoPath, Top, NoExc)
    /\ UNCHANGED <<callers, cityscapes,
                   platform, fs, pc, result, handles, invocations, ops>>

EndAlternative ==
    /\ BodyEnds
    /\ Top.kind = "alternative"
    /\ LET out == AlternativeExit(scopes[Top.saved], NoExc)
       IN  /\ scopes' = [scopes EXCEPT ![Top.saved] = out.scope]
           /\ exc' = out.exc
    /\ one_or_more_context' = Top.saved
    /\ stack' = LeaveAlternative(NoExc)
    /\ last' = Observation("end_alternative", <<>>, NoExclude, NoPath, Top, NoExc)
    /\ UNCHANGED <<callers, cityscapes,
                   platform, fs, pc, result, handles, invocations, ops>>

EndProbe ==
    /\ BodyEnds
    /\ Top.kind = "probe"
    /\ handles' = handles - 1
    /\ exc' = ProbeExit(one_or_more_context, NoExc, Top.desc)
    /\ stack' = Front(stack)
    /\ last' = Observation("end_probe_text_file", <<>>, NoExclude, NoPath, Top, NoExc)
    /\ UNCHANGED <<callers, cityscapes,
                   platform, fs, pc, one_or_more_context, scopes, result,
                   invocations, ops>>

----------------------------------------------------------------------------
(* Leaving a with-block: an exception left its body *)

Unwinding == pc = "detector" /\ exc # NoExc /\ stack # <<>>

\* as UnwindRequireAny, without the finally clause
UnwindRequireAny_NoFinally ==
    /\ Unwinding
    /\ Top.kind = "require_any"
    /\ one_or_more_context' = one_or_more_context
    /\ scopes' = scopes
    /\ stack' = Front(stack)
    /\ exc' = exc
    /\ last' = Observation("unwind_require_any", <<>>, NoExclude, NoPath, Top, exc)
    /\ UNCHANGED <<callers, cityscapes,
                   platform, fs, pc, result, handles, invocations, ops>>

\* require_any: the finally clause
UnwindRequireAny ==
    /\ Unwinding
    /\ Top.kind = "require_any"
    /\ one_or_more_context' = NoScope
    /\ scopes' = Collect(scopes, Top.scope)
    /\ stack' = Front(stack)
    /\ exc' = exc
    /\ last' = Observation("unwind_require_any", <<>>, NoExclude, NoPath, Top, exc)
    /\ UNCHANGED <<callers, cityscapes,
                   platform, fs, pc, result, handles, invocations, ops>>

\* as UnwindAlternative, without the finally clause
UnwindAlternative_NoRestore ==
    /\ Unwinding
    /\ Top.kind = "alternative"
    /\ LET out == AlternativeExit(scopes[Top.saved], exc)
       IN  /\ scopes' = [scopes EXCEPT ![Top.saved] = out.scope]
           /\ exc' = out.exc
           /\ stack' = LeaveAlternative(exc)
    /\ one_or_more_context' = one_or_more_context
    /\ last' = Observation("unwind_alternative", <<>>, NoExclude, NoPath, Top, exc)
    /\ UNCHANGED <<callers, cityscapes,
                   platform, fs, pc, result, handles, invocations, ops>>

\* alternative: the except and finally clauses
UnwindAlternative ==
    /\ Unwinding
    /\ Top.kind = "alternative"
    /\ LET out == AlternativeExit(scopes[Top.saved], exc)
       IN  /\ scopes' = [scopes EXCEPT ![Top.saved] = out.scope]
           /\ exc' = out.exc
           /\ stack' = LeaveAlternative(exc)
    /\ one_or_more_context' = Top.saved
    /\ last' = Observation("unwind_alternative", <<>>, NoExclude, NoPath, Top, exc)
    /\ UNCHANGED <<callers, cityscapes,
                   platform, fs, pc, result, handles, invocations, ops>>

\* as UnwindProbe, the file left open
UnwindProbe_NoClose ==
    /\ Unwinding
    /\ Top.kind = "probe"
    /\ handles' = handles
    /\ exc' = ProbeExit(one_or_more_context, exc, Top.desc)
    /\ stack' = Front(stack)
    /\ last' = Observation("unwind_probe_text_file", <<>>, NoExclude, NoPath, Top, exc)
    /\ UNCHANGED <<callers, cityscapes,
                   platform, fs, pc, one_or_more_context, scopes, result,
                   invocations, ops>>

\* probe_text_file: the file is closed, then the except clauses
UnwindProbe ==
    /\ Unwinding
    /\ Top.kind = "probe"
    /\ handles' = handles - 1
    /\ exc' = ProbeExit(one_or_more_context, exc, Top.desc)
    /\ stack' = Front(stack)
    /\ last' = Observation("unwind_probe_text_file", <<>>, NoExclude, NoPath, Top, exc)
    /\ UNCHANGED <<callers, cityscapes,
                   platform, fs, pc, one_or_more_context, scopes, result,
                   invocations, ops>>

----------------------------------------------------------------------------
(* apply_format_detector, from the end of the detector *)

\* as the return of apply_format_detector, the detector's value dropped
Normalize_AlwaysMedium(value) == Confidence(MEDIUM)

\* as the return of apply_format_detector, without the default
Normalize_NoDefault(value) == value

\* return detector(context) or FormatDetectionConfidence.MEDIUM
Normalize(value) == IF Truthy(value) THEN value ELSE Confidence(MEDIUM)

Return(value) ==
    /\ pc = "detector"
    /\ exc = NoExc
    /\ stack = <<>>
    /\ result' = [kind |-> "returned", value |-> Normalize(value), exc |-> NoExc]
    /\ pc' = "done"
    /\ last' = Observation("return", value, NoExclude, NoPath, NoFrame, NoExc)
    /\ UNCHANGED <<callers, cityscapes,
                   platform, fs, one_or_more_context, scopes, stack, exc,
                   handles, invocations, ops>>

\* as Propagate, the exception swallowed and MEDIUM returned
Propagate_Swallow ==
    /\ pc = "detector"
    /\ exc # NoExc
    /\ stack = <<>>
    /\ result' = [kind |-> "returned", value |-> Confidence(MEDIUM), exc |-> NoExc]
    /\ exc' = NoExc
    /\ pc' = "done"
    /\ last' = Observation("propagate", <<>>, NoExclude, NoPath, last.frame, exc)
    /\ UNCHANGED <<callers, cityscapes,
                   platform, fs, one_or_more_context, scopes, stack,
                   handles, invocations, ops>>

\* an exception leaves the detector and apply_format_detector
Propagate ==
    /\ pc = "detector"
    /\ exc # NoExc
    /\ stack = <<>>
    /\ result' = [kind |-> "raised", value |-> PyNone, exc |-> exc]
    /\ exc' = NoExc
    /\ pc' = "done"
    /\ last' = Observation("propagate", <<>>, NoExclude, NoPath, last.frame, exc)
    /\ UNCHANGED <<callers, cityscapes,
                   platform, fs, one_or_more_context, scopes, stack,
                   handles, invocations, ops>>

----------------------------------------------------------------------------
(* The callers of apply_format_detector *)

\* a caller that calls apply_format_detector again, with the same root and
\* detector, whatever the call before gave
CallAgain ==
    /\ pc = "done"
    /\ invocations < MaxInvocations
    /\ pc' = "idle"
    /\ previous' = [kind |-> result.kind, exc |-> result.exc.type,
                    from |-> last.frame.kind]
    /\ last' = Observation("call_again", <<>>, NoExclude, NoPath, NoFrame, NoExc)
    /\ UNCHANGED <<platform, fs, one_or_more_context, scopes, stack, exc,
                   result, handles, invocations, ops, max_confidence, matched,
                   tried, detected, cityscapes>>

\* the formats of the environment, in the order of registration
Formats == 1..NumFormats

\* what the detector that has just run did, as its caller saw it happen
DetectorDid ==
    IF last.op = "return" THEN "returned"
    ELSE IF last.op = "apply_format_detector"
              \/ (last.op = "propagate" /\ IsUnmet(last.excIn))
         THEN "unmet"
         ELSE "error"

\* Environment.detect_dataset, one turn of its loop over the formats, after
\* apply_format_detector has come back: FormatRequirementsUnmet is caught and
\* the next format tried, a confidence is ranked against the best so far
\* (0 at the start), anything else leaves detect_dataset
DetectDatasetNext ==
    /\ pc = "done"
    /\ Len(tried) < NumFormats
    /\ LET format_name == Len(tried) + 1
           new_confidence == result.value[2]
       IN  IF result.kind = "raised" /\ ~IsUnmet(result.exc)
           THEN /\ pc' = "aborted"
                /\ UNCHANGED <<max_confidence, matched, tried, detected>>
           ELSE /\ tried' = Append(tried, DetectorDid)
                /\ IF result.kind = "returned" /\ new_confidence > max_confidence
                   THEN /\ matched' = <<format_name>>
                        /\ max_confidence' = new_confidence
                   ELSE IF result.kind = "returned"
                             /\ new_confidence = max_confidence
                   THEN /\ matched' = Append(matched, format_name)
                        /\ max_confidence' = max_confidence
                   ELSE UNCHANGED <<matched, max_confidence>>
                /\ IF format_name = NumFormats
                   THEN /\ pc' = "detected"
                        /\ detected' = matched'
                   ELSE /\ pc' = "idle"
                        /\ detected' = detected
    /\ last' = Observation("detect_dataset", <<>>, NoExclude, NoPath, NoFrame, NoExc)
    /\ UNCHANGED <<platform, fs, one_or_more_context, scopes, stack, exc,
                   result, handles, invocations, ops, previous, cityscapes>>

----------------------------------------------------------------------------
(* Cityscapes: the instance ids CityscapesConverter.apply writes for the    *)
(* masks of an item and what CityscapesExtractor._load_items reads back.    *)
(* A mask is [label, is_crowd, id]: label is the id the converter's label   *)
(* map gives the mask's label, id 0 is the id of an annotation that has     *)
(* none.  Every mask keeps at least one pixel of the compiled image.        *)

\* the variables of format detection, which the Cityscapes plugin leaves alone
detection == <<platform, fs, pc, one_or_more_context, scopes, stack, exc,
               result, handles, invocations, ops, last, callers>>

\* as the instance id of the converter, with the position counted from 0
InstanceId_ZeroBased(m, i) ==
    IF m.is_crowd
    THEN m.label
    ELSE m.label * 1000 + (IF m.id # 0 THEN m.id ELSE i - 1)

\* the instance id the converter gives the mask m, the i-th of its item
\* (i from 1): label id if m.attributes.get('is_crowd', False),
\* else label id * 1000 + (m.id or (i + 1)) for enumerate's i from 0
InstanceId(m, i) ==
    IF m.is_crowd
    THEN m.label
    ELSE m.label * 1000 + (IF m.id # 0 THEN m.id ELSE i)

\* CityscapesConverter.apply: the instance image of an item with masks,
\* saved and loaded as int32, which holds every id of the label ids and mask
\* ids below; pixels that no mask covers are 0
CityscapesConverterApply ==
    /\ masks # <<>>
    /\ instance_ids = <<>>
    /\ instance_ids' = [i \in 1..Len(masks) |-> InstanceId(masks[i], i)]
    /\ \E covered \in BOOLEAN :
          instances_mask' =
              {instance_ids'[i] : i \in 1..Len(masks)}
                  \cup (IF covered THEN {} ELSE {0})
    /\ UNCHANGED <<masks, anns, detection>>

\* the annotation the extractor makes of one value of the instance image
LoadedMask(segm_id) ==
    IF segm_id < 1000
    THEN [segm_id |-> segm_id, label |-> segm_id, is_crowd |-> TRUE,
          id |-> <<>>]
    ELSE [segm_id |-> segm_id, label |-> segm_id \div 1000,
          is_crowd |-> FALSE, id |-> <<segm_id % 1000>>]

\* CityscapesExtractor._load_items: one Mask for each value of
\* np.unique(instances_mask)
CityscapesExtractorLoad ==
    /\ instances_mask # {}
    /\ anns = {}
    /\ anns' = {LoadedMask(segm_id) : segm_id \in instances_mask}
    /\ UNCHANGED <<masks, instance_ids, instances_mask, detection>>

\* label ids and mask ids around the limits of the encoding
CityscapesLabelIds == {0, 1, 999, 1000}

MaskIds == {-1, 0, 1, 999, 1000}

MaskAnnotations ==
    [label : CityscapesLabelIds, is_crowd : BOOLEAN, id : MaskIds]

\* the lists of 1 to n masks
MaskLists(n) == UNION {[1..k -> MaskAnnotations] : k \in 1..n}

----------------------------------------------------------------------------
(* Specifications *)

\* what a detector under test asks for
DetectorPatterns == {P_a_rec_txt, P_up_s}

ProbePaths == {P_ctxt, P_up_s}

ProbeDesc == <<"must be a list">>

Next ==
    \/ ApplyFormatDetector
    \/ \E d \in Descs : Fail(d)
    \/ \E p \in DetectorPatterns : CallRequireFile(p, NoExclude)
    \/ \E p \in ProbePaths : EnterProbe(p, ProbeDesc)
    \/ EnterRequireAny
    \/ EnterAlternative
    \/ RaiseOther
    \/ EndRequireAny
    \/ EndAlternative
    \/ EndProbe
    \/ UnwindRequireAny
    \/ UnwindAlternative
    \/ UnwindProbe
    \/ \E v \in DetectorReturns : Return(v)
    \/ Propagate

Spec == Init /\ [][Next]_vars

\* detectors that place require_file requirements only, over every file
\* system, pattern and exclusion
InitFile == InitWith(FsChoices)

NextFile ==
    \/ ApplyFormatDetector
    \/ \E p \in FilePatterns, e \in Excludes : CallRequireFile(p, e)
    \/ \E v \in DetectorReturns : Return(v)
    \/ Propagate

SpecFile == InitFile /\ [][NextFile]_vars

\* paths given to probe_text_file: files, a directory, a missing file, and
\* paths that are absolute, carry a drive or leave the root
ProbePathsAll ==
    {P_ctxt, N_dtxt, N_a, P_a_up_c, P_dot_c, P_up, P_up_s, P_up_r_c,
     P_a_up_up_s, P_abs_s, P_abs_r_c, P_drive_abs, P_drive_rel}

\* detectors that probe text files, nested or in sequence, with bodies that
\* fail, raise or misuse the context
InitProbe == InitWith({FsFull, FsFlat})

NextProbe ==
    \/ ApplyFormatDetector
    \/ \E p \in ProbePathsAll : EnterProbe(p, ProbeDesc)
    \/ \E d \in Descs : Fail(d)
    \/ RaiseOther
    \/ EnterAlternative
    \/ EndProbe
    \/ UnwindProbe
    \/ \E v \in DetectorReturns : Return(v)
    \/ Propagate

SpecProbe == InitProbe /\ [][NextProbe]_vars

\* a caller that invokes detectors built of require_any and alternative
\* blocks one after the other on the same root
InitTwice == InitWith({FsFull, FsRootIsFile})

NextTwice ==
    \/ ApplyFormatDetector
    \/ \E d \in Descs : Fail(d)
    \/ EnterRequireAny
    \/ EnterAlternative
    \/ RaiseOther
    \/ EndRequireAny
    \/ EndAlternative
    \/ UnwindRequireAny
    \/ UnwindAlternative
    \/ \E v \in DetectorReturns : Return(v)
    \/ Propagate
    \/ CallAgain

SpecTwice == InitTwice /\ [][NextTwice]_vars

\* the environment trying the detector of every format on one root
InitRegistry == InitWith({FsFull, FsRootIsFile})

NextRegistry ==
    \/ ApplyFormatDetector
    \/ \E d \in Descs : Fail(d)
    \/ \E p \in DetectorPatterns : CallRequireFile(p, NoExclude)
    \/ RaiseOther
    \/ \E v \in DetectorReturns : Return(v)
    \/ Propagate
    \/ DetectDatasetNext

SpecRegistry == InitRegistry /\ [][NextRegistry]_vars

\* an item with masks is converted to Cityscapes and read back
InitCityscapes ==
    /\ InitDetection({FsEmpty})
    /\ platform = "posix"
    /\ masks \in MaskLists(MaxMasks)
    /\ instance_ids = <<>>
    /\ instances_mask = {}
    /\ anns = {}

NextCityscapes ==
    \/ CityscapesConverterApply
    \/ CityscapesExtractorLoad

SpecCityscapes == InitCityscapes /\ [][NextCityscapes]_vars

----------------------------------------------------------------------------
(* Properties.  `last` is the operation that has just run and `exc` what it *)
(* raised; last.frame is the with-block it entered or left, last.within the *)
(* kind of block the detector was directly inside when it ran.              *)

RequirementOps == {"fail", "require_file", "probe_text_file", "require_any"}

UnwindOps == {"unwind_require_any", "unwind_alternative", "unwind_probe_text_file"}

Unmet(list) == [type |-> "FormatRequirementsUnmet", failed_alternatives |-> list]

\* C1: when the body of a require_any block has run to its end, the block
\* exits without raising if and only if the body of at least one of its
\* alternative blocks completed; if none did and the block has at least one
\* alternative, it raises FormatRequirementsUnmet.
C1_RequireAnySucceedsIffSomeAlternative ==
    last.op = "end_require_any" =>
        /\ (exc = NoExc <=> last.frame.okAlts # <<>>)
        /\ (last.frame.okAlts = <<>> /\ last.frame.nAlts >= 1 => IsUnmet(exc))

\* three alternatives, only the middle one succeeded, the block succeeded
C1_Witness ==
    /\ last.op = "end_require_any"
    /\ last.frame.nAlts = 3
    /\ last.frame.okAlts = <<2>>
    /\ exc = NoExc

\* C2: no short-circuit.  An alternative block written in a require_any block
\* starts its body whatever the earlier alternatives did; leaving an
\* alternative whose body completed or raised FormatRequirementsUnmet raises
\* nothing, so the statements after it run; FormatRequirementsUnmet never
\* cuts the body of a require_any block short; and when that body has run to
\* its end, the bodies of its N alternatives were started in the order 1..N.
C2_NoShortCircuit ==
    /\ (last.op = "alternative" /\ last.within = "require_any") =>
            (exc = NoExc /\ Top.kind = "alternative")
    /\ (last.op = "end_alternative"
            \/ (last.op = "unwind_alternative" /\ IsUnmet(last.excIn))) =>
            exc = NoExc
    /\ last.op = "unwind_require_any" => ~IsUnmet(last.excIn)
    /\ last.op = "end_require_any" =>
            last.frame.started = [i \in 1..last.frame.nAlts |-> i]

\* the first of three alternatives succeeded, the second failed, and all
\* three bodies were started
C2_Witness ==
    /\ last.op = "end_require_any"
    /\ last.frame.nAlts = 3
    /\ last.frame.started = <<1, 2, 3>>
    /\ 1 \in {last.frame.okAlts[i] : i \in 1..Len(last.frame.okAlts)}
    /\ last.frame.failedSeen # <<>>

\* C3: when no alternative of a require_any block succeeded, the
\* FormatRequirementsUnmet raised on exit carries the concatenation, in the
\* order the alternatives ran, of the failure lists that left their bodies.
C3_FailuresConcatenatedInOrder ==
    (/\ last.op = "end_require_any"
     /\ last.frame.okAlts = <<>>
     /\ last.frame.nAlts >= 1) =>
        exc = Unmet(last.frame.failedSeen)

\* two alternatives failed with different descriptions
C3_Witness ==
    /\ last.op = "end_require_any"
    /\ last.frame.nAlts = 2
    /\ exc = Unmet(<< <<"need X">>, <<>> >>)

\* C4: leaving a require_any block in which no alternative block was
\* executed raises the assertion error, not FormatRequirementsUnmet and not
\* a success.
C4_NoAlternativesIsContractViolation ==
    (last.op = "end_require_any" /\ last.frame.started = <<>>) =>
        exc = AssertionError

C4_Witness ==
    /\ last.op = "end_require_any"
    /\ last.frame.nAlts = 0
    /\ exc = AssertionError

\* C5: a requirement (fail, require_file, probe_text_file, require_any)
\* placed directly inside a require_any body raises the assertion error;
\* placed inside an alternative body it does not.
C5_BareRequirementIsContractViolation ==
    last.op \in RequirementOps =>
        /\ (last.within = "require_any" => exc = AssertionError)
        /\ (last.within = "alternative" => exc # AssertionError)

C5_Witness ==
    /\ last.op = "require_file"
    /\ last.within = "require_any"
    /\ exc = AssertionError

\* C6: a contract violation is never converted: a with-block that an
\* assertion error leaves, leaves it as an assertion error.
C6_ContractViolationEscapes ==
    (last.op \in UnwindOps /\ last.excIn = AssertionError) =>
        exc = AssertionError

\* C7: fail(description), called when the detector is not directly inside a
\* require_any body, raises FormatRequirementsUnmet whose failure list is
\* exactly (description,).
C7_FailRaisesItsDescription ==
    (last.op = "fail" /\ last.within # "require_any") =>
        exc = Unmet(<<last.arg>>)

C7_Witness ==
    /\ last.op = "fail"
    /\ last.within = "alternative"
    /\ last.arg = <<"need X">>
    /\ exc = Unmet(<< <<"need X">> >>)

\* C8: every FormatRequirementsUnmet in flight in the detector, caught by a
\* with-block or raised by apply_format_detector carries a non-empty list.
C8_FailureListNeverEmpty ==
    /\ IsUnmet(exc) => exc.failed_alternatives # <<>>
    /\ IsUnmet(last.excIn) => last.excIn.failed_alternatives # <<>>
    /\ IsUnmet(result.exc) => result.exc.failed_alternatives # <<>>

\* apply_format_detector raised the failure of fail("")
C8_Witness ==
    /\ pc = "done"
    /\ result.exc = Unmet(<< <<>> >>)

\* a path with a ".." component
HasDotDotSegment(pf, path) ==
    \E i \in 1..Len(Split(pf, path)) : Split(pf, path)[i] = DotDot

\* a relative path whose normal form starts with a ".." component
EscapesRoot(pf, path) ==
    LET comps == NormComps(Split(pf, splitdrive(pf, path)[2]), FALSE, <<>>)
    IN  comps # <<>> /\ Head(comps) = DotDot

\* C9 as stated: require_file with a pattern that has a ".." segment
\* anywhere, or is absolute, raises FormatRequirementsUnmet.
C9_AnyDotDotIsUnmet ==
    (/\ last.op = "require_file"
     /\ (HasDotDotSegment(platform, last.arg) \/ isabs(platform, last.arg))) =>
        IsUnmet(exc)

\* C9, amended: require_file with a pattern that is absolute, or whose
\* normal form is ".." or starts with a ".." segment, raises
\* FormatRequirementsUnmet, whatever files exist.
C9_EscapingPatternIsUnmet ==
    (/\ last.op = "require_file"
     /\ (EscapesRoot(platform, last.arg) \/ isabs(platform, last.arg))) =>
        IsUnmet(exc)

\* a/../../s.txt, the file s.txt existing next to the root
C9_Witness ==
    /\ last.op = "require_file"
    /\ last.arg = P_a_up_up_s
    /\ F_s \in fs.files
    /\ D_ra \in fs.dirs
    /\ IsUnmet(exc)

ExclusionPatterns(exclude) ==
    IF exclude.isStr THEN {exclude.val}
    ELSE {exclude.val[k] : k \in 1..Len(exclude.val)}

Excluded(name, exclude) ==
    \E pat \in ExclusionPatterns(exclude) : fnmatch(name, pat)

\* the regular files the glob of a pattern under the root produces
PatternFiles(pf, f, pattern) ==
    {NodeOf(pf, f, path) :
        path \in {p \in iglob(pf, f, join(pf, RootPath(pf), pattern), FALSE) :
                     isfile(pf, f, p)}}

\* C11: require_file(pattern, exclude_fnames=E) never returns a path whose
\* basename matches a pattern of E, and raises FormatRequirementsUnmet when
\* every file the pattern matches has such a basename; a single string given
\* as E is one pattern.
C11_ExcludedNamesNeverReturned ==
    last.op = "require_file" =>
        /\ last.ret # NoPath =>
                ~Excluded(Last(Split(platform, last.ret)), last.exclude)
        /\ (\A node \in PatternFiles(platform, fs, last.arg) :
                Excluded(Last(node), last.exclude)) =>
                (IsUnmet(exc) /\ last.ret = NoPath)

\* *.txt with the single string "c.txt" excluded, c.txt being the only match
C11_Witness ==
    /\ last.op = "require_file"
    /\ last.arg = P_star_txt
    /\ last.exclude = [isStr |-> TRUE, val |-> N_ctxt]
    /\ PatternFiles(platform, fs, last.arg) = {F_rc}
    /\ IsUnmet(exc)

\* a regular file below the root
FileUnderRoot(node) ==
    /\ node \in fs.files
    /\ Len(node) > Len(RootNode)
    /\ SubSeq(node, 1, Len(RootNode)) = RootNode

\* a path returned by require_file is relative to the root and denotes a
\* regular file under the root that the glob of the pattern produces
ReturnedPathIsAMatch ==
    last.ret # NoPath =>
        /\ ~isabs(platform, last.ret)
        /\ splitdrive(platform, last.ret)[1] # <<>> => FALSE
        /\ ~HasDotDotSegment(platform, last.ret)
        /\ LET node == Walk(fs, RootNode, Split(platform, last.ret))
           IN  /\ FileUnderRoot(node)
               /\ node \in PatternFiles(platform, fs, last.arg)

\* some regular file under the root matches the pattern and no exclusion
SomeFileQualifies ==
    \E node \in PatternFiles(platform, fs, last.arg) :
        FileUnderRoot(node) /\ ~Excluded(Last(node), last.exclude)

Native(pf, names) == Join(names, sep(pf))

\* the three calls of the scenario, without exclusions
ScenarioCall(f, pattern) ==
    /\ last.op = "require_file"
    /\ last.exclude = NoExclude
    /\ fs = f
    /\ last.arg = pattern

\* C13 as stated: with only a/b/c.txt under the root, a/**/*.txt returns
\* the string a/b/c.txt and a/**/*.csv raises FormatRequirementsUnmet; with
\* a/c.txt directly under a, a/**/*.txt returns the string a/c.txt.
C13_RecursiveSegmentReturnsSlashPath ==
    /\ ScenarioCall(FsNested, P_a_rec_txt) =>
            (exc = NoExc /\ last.ret = Str(<<N_a, N_b, N_ctxt>>))
    /\ ScenarioCall(FsNested, P_a_rec_csv) =>
            (IsUnmet(exc) /\ last.ret = NoPath)
    /\ ScenarioCall(FsDirect, P_a_rec_txt) =>
            (exc = NoExc /\ last.ret = Str(<<N_a, N_ctxt>>))

\* C13, amended: the same three calls, the returned path being a/b/c.txt
\* and a/c.txt written with the path separator of the platform.
C13_RecursiveSegmentReturnsNativePath ==
    /\ ScenarioCall(FsNested, P_a_rec_txt) =>
            (exc = NoExc /\ last.ret = Native(platform, <<N_a, N_b, N_ctxt>>))
    /\ ScenarioCall(FsNested, P_a_rec_csv) =>
            (/\ exc = Unmet(<<RequireFileDesc(P_a_rec_csv, NoExclude)>>)
             /\ last.ret = NoPath)
    /\ ScenarioCall(FsDirect, P_a_rec_txt) =>
            (exc = NoExc /\ last.ret = Native(platform, <<N_a, N_ctxt>>))

\* ** standing for zero directories, on the platform with the other separator
C13_Witness ==
    /\ ScenarioCall(FsDirect, P_a_rec_txt)
    /\ platform = "nt"
    /\ last.ret = <<"a", "\\", "c", ".", "t", "x", "t">>

\* the probe_text_file blocks that have been entered and not left
OpenProbes == Cardinality({i \in 1..Len(stack) : stack[i].kind = "probe"})

\* C14: the files held open are those of the probe_text_file blocks not yet
\* left, so a block that has been left, on any path, holds none; when
\* apply_format_detector is over no file is open.
C14_NoHandleOutlivesItsBlock ==
    /\ handles = OpenProbes
    /\ pc = "done" => handles = 0
    /\ (last.op = "probe_text_file" /\ exc # NoExc) => Top = last.frame

\* the body of the only open block raised an exception that is not
\* FormatRequirementsUnmet
C14_Witness ==
    /\ last.op = "unwind_probe_text_file"
    /\ last.excIn = AssertionError
    /\ stack = <<>>
    /\ handles = 0

\* C15: FormatRequirementsUnmet raised in the body of a probe_text_file
\* block leaves the block as it is, the same failure list.
C15_NestedUnmetPropagatesUnchanged ==
    (last.op = "unwind_probe_text_file" /\ IsUnmet(last.excIn)) =>
        /\ exc = last.excIn
        /\ exc.failed_alternatives = last.excIn.failed_alternatives

\* a require_any block in the body failed with two collected failures
C15_Witness ==
    /\ last.op = "unwind_probe_text_file"
    /\ IsUnmet(last.excIn)
    /\ Len(last.excIn.failed_alternatives) = 2
    /\ last.frame.desc \notin
            {last.excIn.failed_alternatives[k] : k \in 1..2}
    /\ exc = last.excIn

\* the path is relative, has no drive and its normal form stays in the root
PassesTraversalCheck(pf, path) ==
    /\ ~isabs(pf, path)
    /\ splitdrive(pf, path)[1] = <<>>
    /\ LET comps == NormComps(Split(pf, path), FALSE, <<>>)
       IN  Len(comps) > 1 => Head(comps) # DotDot

\* the file a probe of the path opens
ProbedNode(pf, f, path) == NodeOf(pf, f, join(pf, RootPath(pf), path))

\* the combined descriptions of the probes
ProbeDescs == {ProbeDescFull(p, ProbeDesc) : p \in ProbePathsAll \cup ProbePaths}

\* C16: a probe_text_file block whose open fails, or whose body raises
\* something that is not FormatRequirementsUnmet, exits with
\* FormatRequirementsUnmet of the one description "path: description"; the
\* requirement is met iff the path passes the traversal check, the file
\* opens and the body ends without raising.
C16_OtherFailuresBecomeUnmet ==
    /\ (last.op = "unwind_probe_text_file" /\ ~IsUnmet(last.excIn)) =>
            /\ exc = Unmet(<<last.frame.desc>>)
            /\ last.frame.desc \in ProbeDescs
    /\ (last.op = "probe_text_file" /\ last.within # "require_any") =>
            LET opens == /\ PassesTraversalCheck(platform, last.arg)
                         /\ ProbedNode(platform, fs, last.arg) \in fs.files
            IN  /\ opens <=> exc = NoExc
                /\ opens => (Top.kind = "probe" /\
                             Top.desc = ProbeDescFull(last.arg, ProbeDesc))
                /\ ~opens => exc = Unmet(<<ProbeDescFull(last.arg, ProbeDesc)>>)
    /\ last.op = "end_probe_text_file" => exc = NoExc
    /\ last.op = "unwind_probe_text_file" => exc # NoExc

\* reading c.txt in the body raised an exception of another class
C16_Witness ==
    /\ last.op = "unwind_probe_text_file"
    /\ last.excIn = OtherException
    /\ exc = Unmet(<<ProbeDescFull(P_ctxt, ProbeDesc)>>)

\* C17: probe_text_file with a path that is absolute, has a drive or leaves
\* the root raises FormatRequirementsUnmet of the combined description, no
\* file opened and no body entered; a file that is opened is under the root.
C17_ProbeNeverOpensOutsideRoot ==
    (last.op = "probe_text_file" /\ last.within # "require_any") =>
        /\ (\/ isabs(platform, last.arg)
            \/ splitdrive(platform, last.arg)[1] # <<>>
            \/ EscapesRoot(platform, last.arg)) =>
                /\ exc = Unmet(<<ProbeDescFull(last.arg, ProbeDesc)>>)
                /\ Top = last.frame
                /\ handles = OpenProbes
        /\ exc = NoExc =>
                /\ FileUnderRoot(ProbedNode(platform, fs, last.arg))
                /\ Top.kind = "probe"

\* a/../../s.txt, the file s.txt existing next to the root
C17_Witness ==
    /\ last.op = "probe_text_file"
    /\ last.arg = P_a_up_up_s
    /\ F_s \in fs.files
    /\ D_ra \in fs.dirs
    /\ exc = Unmet(<<ProbeDescFull(P_a_up_up_s, ProbeDesc)>>)
    /\ handles = 0

\* C18: apply_format_detector on a root path that is not an existing
\* directory raises FormatRequirementsUnmet and never invokes the detector.
C18_NonDirectoryRootFailsBeforeDetector ==
    (RootNode \notin fs.dirs /\ pc # "idle") =>
        /\ pc = "done"
        /\ result.kind = "raised"
        /\ result.exc = Unmet(<<RootDesc(RootPath(platform))>>)
        /\ invocations = 0
        /\ last.op = "apply_format_detector"

\* the root path names a regular file
C18_Witness ==
    /\ RootNode \in fs.files
    /\ pc = "done"
    /\ IsUnmet(result.exc)
    /\ invocations = 0

\* C19: when the detector returns, apply_format_detector returns the
\* detector's confidence level as it is, and MEDIUM when the detector
\* returned None.
C19_ReturnsTheDetectorsConfidence ==
    last.op = "return" =>
        /\ pc = "done"
        /\ result.kind = "returned"
        /\ result.exc = NoExc
        /\ last.arg = Confidence(LOW) => result.value = Confidence(LOW)
        /\ last.arg = Confidence(MEDIUM) => result.value = Confidence(MEDIUM)
        /\ last.arg = PyNone => result.value = Confidence(MEDIUM)

\* the detector returned LOW
C19_Witness ==
    /\ last.op = "return"
    /\ last.arg = Confidence(LOW)
    /\ result.value = Confidence(LOW)
    /\ invocations = 1

\* C20: FormatRequirementsUnmet raised by the detector leaves
\* apply_format_detector as it is, the same failures in the same order, and
\* no confidence is returned.
C20_DetectorUnmetPropagatesUnchanged ==
    (last.op = "propagate" /\ IsUnmet(last.excIn)) =>
        /\ pc = "done"
        /\ result.kind = "raised"
        /\ result.exc = last.excIn
        /\ result.value = PyNone

\* a require_any block of the detector failed with two different failures
C20_Witness ==
    /\ last.op = "propagate"
    /\ IsUnmet(last.excIn)
    /\ Len(last.excIn.failed_alternatives) = 2
    /\ last.excIn.failed_alternatives[1] # last.excIn.failed_alternatives[2]
    /\ result.exc = last.excIn
    /\ invocations = 1

\* an exception that is not FormatRequirementsUnmet
IsOther(e) == e # NoExc /\ ~IsUnmet(e)

\* C21: an exception other than FormatRequirementsUnmet that leaves the
\* detector leaves apply_format_detector as it is, not as
\* FormatRequirementsUnmet and not as a confidence; a require_any or
\* alternative block it passes through lets it through unchanged.
C21_OtherExceptionsPropagateAsIs ==
    /\ (last.op = "propagate" /\ IsOther(last.excIn)) =>
            /\ pc = "done"
            /\ result.kind = "raised"
            /\ result.exc = last.excIn
            /\ result.value = PyNone
    /\ (last.op \in {"unwind_alternative", "unwind_require_any"}
            /\ IsOther(last.excIn)) => exc = last.excIn

\* an exception of the detector's own code left apply_format_detector
C21_Witness ==
    /\ last.op = "propagate"
    /\ last.excIn = OtherException
    /\ result.kind = "raised"
    /\ result.exc = OtherException

\* C22: every level of FormatDetectionConfidence is above 0 and LOW is below
\* MEDIUM, so 0 is below every confidence that apply_format_detector returns
\* from a detector that returned a level.
C22_LevelsArePositiveAndOrdered ==
    /\ \A level \in FormatDetectionConfidence : level > 0
    /\ LOW < MEDIUM
    /\ (last.op = "return" /\ last.arg[1] = "FormatDetectionConfidence") =>
            /\ result.value[2] \in FormatDetectionConfidence
            /\ 0 < result.value[2]

\* the detector returned the lowest level
C22_Witness ==
    /\ last.op = "return"
    /\ last.arg = Confidence(LOW)
    /\ result.value[2] = LOW
    /\ \A level \in FormatDetectionConfidence : LOW <= level

\* C24: an alternative block entered where the detector is not directly
\* inside a require_any block raises AssertionError, not
\* FormatRequirementsUnmet, and no block is entered.
C24_StrayAlternativeIsContractViolation ==
    (last.op = "alternative" /\ last.within # "require_any") =>
        /\ exc = AssertionError
        /\ Top = last.frame
        /\ Top.kind = last.within
        /\ one_or_more_context = NoScope

\* an alternative block written directly inside an alternative block
C24_Witness ==
    /\ last.op = "alternative"
    /\ last.within = "alternative"
    /\ exc = AssertionError
    /\ Top.kind = "alternative"

\* C26: _one_or_more_context refers to an object exactly when the detector
\* is directly inside a require_any body, and then to the object of that
\* block; it is None before any block, in every alternative body and once a
\* require_any block has been left, however it was left.
C26_ScopeSetExactlyInsideRequireAny ==
    /\ one_or_more_context # NoScope <=> Top.kind = "require_any"
    /\ Top.kind = "require_any" =>
            /\ one_or_more_context = Top.scope
            /\ one_or_more_context \in DOMAIN scopes
    /\ last.op \in {"end_require_any", "unwind_require_any"} =>
            one_or_more_context = NoScope
    /\ pc # "detector" => one_or_more_context = NoScope

\* a require_any block nested in an alternative body was left by a contract
\* violation
C26_Witness ==
    /\ last.op = "unwind_require_any"
    /\ last.excIn = AssertionError
    /\ Top.kind = "alternative"
    /\ one_or_more_context = NoScope

\* the step that leaves the innermost block, an alternative block
AlternativeLeft ==
    /\ Top.kind = "alternative"
    /\ Len(stack') = Len(stack) - 1

\* the require_any block around the innermost block
Enclosing == IF Len(stack) < 2 THEN NoFrame ELSE stack[Len(stack) - 1]

\* C27: when an alternative block is left, by the end of its body or by any
\* exception, _one_or_more_context is again the object of the enclosing
\* require_any block, which was active when the block was entered; an
\* exception that is not FormatRequirementsUnmet goes on and leaves that
\* object as it was.
C27_AlternativeRestoresTheScope ==
    [][AlternativeLeft =>
        /\ Enclosing.kind = "require_any"
        /\ Top.saved = Enclosing.scope
        /\ one_or_more_context' = Enclosing.scope
        /\ Enclosing.scope \in DOMAIN scopes'
        /\ IsOther(exc) =>
                /\ exc' = exc
                /\ scopes'[Enclosing.scope] = scopes[Enclosing.scope]]_vars

\* an exception of another class left the body of the second alternative,
\* the first having failed
C27_Witness ==
    /\ last.op = "unwind_alternative"
    /\ last.excIn = OtherException
    /\ exc = OtherException
    /\ Top.kind = "require_any"
    /\ one_or_more_context = Top.scope
    /\ scopes[one_or_more_context].failed_alternatives # <<>>
    /\ ~scopes[one_or_more_context].had_successful_alternatives

\* the require_any blocks that an open alternative block has suspended and
\* that the step leaves suspended
Suspended ==
    {i \in 1..(Len(stack) - 1) :
        stack[i].kind = "require_any" /\ Len(stack') > i}

\* C28: while an alternative body of a require_any block runs, whatever is
\* nested in it, the object of that block keeps its failure list and its
\* success flag; a nested require_any block that fails raises its whole
\* failure list, which the alternative block appends to the outer list, and
\* an alternative block whose body ends appends nothing.
C28_NestedBlocksLeaveOuterScope ==
    [][/\ \A i \in Suspended :
              /\ stack[i].scope \in DOMAIN scopes'
              /\ scopes'[stack[i].scope] = scopes[stack[i].scope]
       /\ (Top.kind = "require_any" /\ Len(stack') = Len(stack) - 1
             /\ exc = NoExc /\ IsUnmet(exc')) =>
              exc'.failed_alternatives = scopes[Top.scope].failed_alternatives
       /\ (AlternativeLeft /\ IsUnmet(exc)) =>
              /\ scopes'[Enclosing.scope].failed_alternatives =
                    scopes[Enclosing.scope].failed_alternatives
                        \o exc.failed_alternatives
              /\ scopes'[Enclosing.scope].had_successful_alternatives =
                    scopes[Enclosing.scope].had_successful_alternatives
       /\ (AlternativeLeft /\ exc = NoExc) =>
              /\ scopes'[Enclosing.scope].failed_alternatives =
                    scopes[Enclosing.scope].failed_alternatives
              /\ scopes'[Enclosing.scope].had_successful_alternatives]_vars

\* three require_any blocks, each in an alternative body of the one before:
\* the innermost has just failed, the outermost keeps the success of its
\* first alternative and the middle one has collected nothing yet
C28_Witness ==
    /\ last.op = "end_require_any"
    /\ IsUnmet(exc)
    /\ Len(stack) = 4
    /\ stack[1].kind = "require_any"
    /\ stack[3].kind = "require_any"
    /\ scopes[stack[1].scope].had_successful_alternatives
    /\ scopes[stack[1].scope].failed_alternatives = <<>>
    /\ scopes[stack[3].scope] = OneOrMoreContext

\* C29: whatever apply_format_detector returns is truthy and above 0; for a
\* detector that returned a falsy value (None, False, 0) it is MEDIUM.
C29_ReturnedConfidenceIsNeverZero ==
    last.op = "return" =>
        /\ result.kind = "returned"
        /\ Truthy(result.value)
        /\ result.value[2] > 0
        /\ last.arg \in {PyNone, PyFalse, <<"int", 0>>} =>
                result.value = Confidence(MEDIUM)

\* the detector returned the integer 0
C29_Witness ==
    /\ last.op = "return"
    /\ last.arg = <<"int", 0>>
    /\ result.value = Confidence(MEDIUM)

\* the context a detector starts with: no alternation scope, no block
\* entered, no operation issued, no file open
FreshContext ==
    /\ one_or_more_context = NoScope
    /\ scopes = <<>>
    /\ stack = <<>>
    /\ exc = NoExc
    /\ ops = 0
    /\ handles = 0

Returned == {i \in 1..Len(tried) : tried[i] = "returned"}

\* C25: FormatRequirementsUnmet from one detector leaves the others to be
\* tried; a format whose detector raised it is not among the detected
\* formats; when exactly one detector returned, the detected formats are
\* that one format.
C25_UnmetFormatsAreSkipped ==
    /\ (last.op = "detect_dataset" /\ tried # <<>> /\ pc # "aborted"
            /\ Last(tried) = "unmet" /\ Len(tried) < NumFormats) => pc = "idle"
    /\ pc = "detected" =>
            /\ Len(tried) = NumFormats
            /\ RootNode \in fs.dirs => invocations = NumFormats
            /\ \A k \in 1..Len(detected) : detected[k] \in Returned
            /\ \A i \in Returned : Returned = {i} => detected = <<i>>
    /\ pc = "aborted" => DetectorDid = "error"

\* the first detector raised FormatRequirementsUnmet, the second one
\* returned and is the only one that did
C25_Witness ==
    /\ pc = "detected"
    /\ tried[1] = "unmet"
    /\ Returned = {2}
    /\ detected = <<2>>
    /\ RootNode \in fs.dirs

\* the annotation read back for the mask at position i
ReadBack(i) == CHOOSE a \in anns : a.segm_id = instance_ids[i]

\* the id written with the label of a mask that is not a crowd: its own, or
\* its position counted from 1 when it has none
WrittenId(i) == IF masks[i].id # 0 THEN masks[i].id ELSE i

\* the converter writes L for a crowd mask and L * 1000 + id otherwise
WritesAsStated ==
    \A i \in 1..Len(instance_ids) :
        instance_ids[i] = IF masks[i].is_crowd
                          THEN masks[i].label
                          ELSE masks[i].label * 1000 + WrittenId(i)

\* C30 as stated: the converter writes L or L * 1000 + id, and for every
\* mask with L >= 0 the extractor reads back the same label and the same
\* is_crowd, and the same id for a mask that is not a crowd and has an id
\* from 1 to 999.
C30_EveryMaskRoundTrips ==
    /\ WritesAsStated
    /\ anns # {} =>
        \A i \in 1..Len(masks) :
            masks[i].label >= 0 =>
                /\ ReadBack(i).label = masks[i].label
                /\ ReadBack(i).is_crowd = masks[i].is_crowd
                /\ (~masks[i].is_crowd /\ masks[i].id \in 1..999) =>
                        ReadBack(i).id = <<masks[i].id>>

\* C30, amended: the converter writes L or L * 1000 + id; the extractor
\* reads back the same label and is_crowd for a crowd mask with L from 0 to
\* 999 and for a mask that is not a crowd with L >= 1 and a written id from
\* 1 to 999, and for the latter the written id.
C30_MasksInRangeRoundTrip ==
    /\ WritesAsStated
    /\ anns # {} =>
        \A i \in 1..Len(masks) :
            /\ (masks[i].is_crowd /\ masks[i].label \in 0..999) =>
                    /\ ReadBack(i).label = masks[i].label
                    /\ ReadBack(i).is_crowd
                    /\ ReadBack(i).id = <<>>
            /\ (~masks[i].is_crowd /\ masks[i].label >= 1
                    /\ WrittenId(i) \in 1..999) =>
                    /\ ReadBack(i).label = masks[i].label
                    /\ ~ReadBack(i).is_crowd
                    /\ ReadBack(i).id = <<WrittenId(i)>>

\* a mask of label 1 without an id, not a crowd, read back with id 1, its
\* position, next to a crowd of label 999
C30_Witness ==
    /\ masks = <<[label |-> 1, is_crowd |-> FALSE, id |-> 0],
                 [label |-> 999, is_crowd |-> TRUE, id |-> 1]>>
    /\ instance_ids = <<1001, 999>>
    /\ [segm_id |-> 1001, label |-> 1, is_crowd |-> FALSE, id |-> <<1>>] \in anns
    /\ [segm_id |-> 999, label |-> 999, is_crowd |-> TRUE, id |-> <<>>] \in anns

====
